---- MODULE Spec2Model ----
(***************************************************************************)
(* The chat page (pages/Index.tsx), its input box (SearchInput), the       *)
(* sidebar (AppSidebar), the relay (public/server.js) and the two tables   *)
(* of the Supabase migration with their row-level-security policies, as    *)
(* one state machine.                                                      *)
(*                                                                         *)
(* Every `await` of a handler is one atomic step: the request carries the  *)
(* access token of the identity signed in when it was sent, the tables are *)
(* read or written at the step, and the code that follows the await runs   *)
(* to the next await.  React state set by a handler is visible to the next *)
(* event; values a handler closed over (messages, currentSessionId, user)  *)
(* are the ones of the render in which the event fired.                    *)
(***************************************************************************)
EXTENDS Naturals, Sequences, FiniteSets

VARIABLES
    chat_sessions,      \* table public.chat_sessions: a set of rows
    chat_messages,      \* table public.chat_messages: a set of rows
    clock,              \* now() of the database
    nextUuid,           \* next value of gen_random_uuid()
    user,               \* useAuth().user: NoUser or an identity
    messages,           \* Index: the in-memory transcript
    showResults,        \* Index
    isLoading,          \* Index
    currentSessionId,   \* Index: NoSession or a session id
    calls,              \* invocations of Index.handleSubmit, in call order: the
                        \* locals of a running one, the outcome of a finished one
    loads,              \* invocations of Index.loadSession, in call order
    sessions,           \* AppSidebar: the session list
    sidebarLoading,     \* AppSidebar: isLoading
    fetches,            \* AppSidebar.fetchSessions: the selects awaited
    deletes,            \* invocations of AppSidebar.handleDeleteSession
    relay,              \* server.js: the exchange handled last, if any
    events,             \* number of user events so far (clicks, sign-ins)
    faults              \* number of failed or thrown requests so far

vars == <<chat_sessions, chat_messages, clock, nextUuid, user, messages,
          showResults, isLoading, currentSessionId, calls, loads, sessions,
          sidebarLoading, fetches, deletes, relay, events, faults>>

storeVars == <<chat_sessions, chat_messages, clock, nextUuid>>
pageVars == <<messages, showResults, isLoading, currentSessionId>>
sidebarVars == <<sessions, sidebarLoading>>

----------------------------------------------------------------------------
(* Bounds of the model *)

\* The user events of a run, and the requests of a run that fail for a reason
\* of the network or the service (a policy's rejection is not counted).
MaxEvents == 3
MaxFaults == 1

(* Program constants *)

TitleLen == 50
SessionLimit == 10

NoUser == "null"
Users == {"u1", "u2"}
NoSession == 0
\* The welcome message's id, and crypto.randomUUID(): ids of the page's own,
\* which are React keys only and never equal a row's id.
DemoId == 0
ClientId == 0

----------------------------------------------------------------------------
(* Text: a string is a sequence of characters *)

Hello == <<"H", "e", "l", "l", "o">>
AIChat == <<"A", "I", " ", "C", "h", "a", "t">>
ErrorText == <<"S", "o", "r", "r", "y">>
Reply == <<"o", "k">>
Welcome == <<"W">>

RemoveAt(seq, i) == SubSeq(seq, 1, i - 1) \o SubSeq(seq, i + 1, Len(seq))

\* s.slice(0, n)
Slice(s, n) == SubSeq(s, 1, IF Len(s) < n THEN Len(s) ELSE n)

\* s.trim() is the empty string
TrimIsEmpty(s) == \A i \in 1..Len(s) : s[i] = " "

\* The bug of a title without the fallback.
SessionTitleNoFallback(query) == Slice(query, TitleLen)

\* query.slice(0, 50) || "AI Chat"
SessionTitle(query) ==
    IF Slice(query, TitleLen) = <<>> THEN AIChat ELSE Slice(query, TitleLen)

\* query || "Hello"
UserContent(query) == IF query = <<>> THEN Hello ELSE query

selectedModel == "chatgpt"

----------------------------------------------------------------------------
(* The tables and their policies *)

\* USING (auth.uid() = user_id) on chat_sessions
OwnsSession(uid, s) == uid # NoUser /\ s.user_id = uid

\* EXISTS (SELECT 1 FROM chat_sessions WHERE id = session_id AND user_id = auth.uid())
OwnsParent(uid, session_id) ==
    \E s \in chat_sessions : s.id = session_id /\ OwnsSession(uid, s)

\* .order("created_at", { ascending: true })
\* The bug of .order("created_at", { ascending: false }).
RECURSIVE OrderNewestFirst(_)
OrderNewestFirst(rows) ==
    IF rows = {} THEN <<>>
    ELSE LET last == CHOOSE r \in rows : \A q \in rows : q.created_at <= r.created_at
         IN <<last>> \o OrderNewestFirst(rows \ {last})

RECURSIVE OrderByCreatedAt(_)
OrderByCreatedAt(rows) ==
    IF rows = {} THEN <<>>
    ELSE LET first == CHOOSE r \in rows :
                          \A o \in rows : r.created_at <= o.created_at
         IN  <<first>> \o OrderByCreatedAt(rows \ {first})

\* .order("updated_at", { ascending: false })
RECURSIVE OrderByUpdatedAtDesc(_)
OrderByUpdatedAtDesc(rows) ==
    IF rows = {} THEN <<>>
    ELSE LET first == CHOOSE r \in rows :
                          \A o \in rows : r.updated_at >= o.updated_at
         IN  <<first>> \o OrderByUpdatedAtDesc(rows \ {first})

\* from("chat_messages").select("*").eq("session_id", id).order("created_at", asc)
SelectMessages(uid, session_id) ==
    OrderByCreatedAt({m \in chat_messages :
                         m.session_id = session_id
                         /\ OwnsParent(uid, m.session_id)})

\* from("chat_sessions").select("*").order("updated_at", desc).limit(10)
\* The bug of a select without .limit(10).
SelectSessionsUnlimited(uid) ==
    OrderByUpdatedAtDesc({s \in chat_sessions : OwnsSession(uid, s)})

SelectSessions(uid) ==
    Slice(OrderByUpdatedAtDesc({s \in chat_sessions : OwnsSession(uid, s)}),
          SessionLimit)

\* INSERT INTO chat_sessions (user_id, title): WITH CHECK (auth.uid() = user_id)
InsertSessionAllowed(uid, user_id) == uid # NoUser /\ uid = user_id

NewSession(user_id, title) ==
    [id |-> nextUuid, user_id |-> user_id, title |-> title,
     created_at |-> clock, updated_at |-> clock]

\* INSERT INTO chat_messages: the foreign key and the WITH CHECK policy
\* The bug of an insert policy that looks at the foreign key only.
InsertMessageAllowedToAnyone(uid, session_id) ==
    \E s \in chat_sessions : s.id = session_id

InsertMessageAllowed(uid, session_id) == OwnsParent(uid, session_id)

NewMessage(session_id, role, content, files) ==
    [id |-> nextUuid, session_id |-> session_id, role |-> role,
     content |-> content, files |-> files, created_at |-> clock]

\* The chat_sessions table after an INSERT INTO chat_messages: the only trigger,
\* update_chat_sessions_updated_at, is BEFORE UPDATE ON chat_sessions.
SessionsAfterMessageInsert(session_id) == chat_sessions

\* DELETE FROM chat_sessions WHERE id = session_id: USING (auth.uid() = user_id)
\* The bug of a delete policy that does not look at the owner.
DeletedSessionsOfAnyone(uid, session_id) ==
    {s \in chat_sessions : s.id = session_id}

DeletedSessions(uid, session_id) ==
    {s \in chat_sessions : s.id = session_id /\ OwnsSession(uid, s)}

\* session_id ... REFERENCES chat_sessions(id) ON DELETE CASCADE
\* The bug of a cascade that does not look at the session deleted.
CascadeDeletedAll(gone) == chat_messages

\* The bug of a foreign key without ON DELETE CASCADE that is not enforced.
CascadeDeletedNone(gone) == {}

CascadeDeleted(gone) ==
    {m \in chat_messages : \E s \in gone : m.session_id = s.id}

----------------------------------------------------------------------------
Init ==
    /\ chat_sessions = {}
    /\ chat_messages = {}
    /\ clock = 1
    /\ nextUuid = 1
    /\ user \in {NoUser} \cup Users
    /\ messages = <<[id |-> DemoId, role |-> "assistant",
                     content |-> Welcome, files |-> <<>>]>>
    /\ showResults = TRUE
    /\ isLoading = FALSE
    /\ currentSessionId = NoSession
    /\ calls = <<>>
    /\ loads = <<>>
    /\ sessions = <<>>
    /\ sidebarLoading = (user # NoUser)
    /\ fetches = IF user # NoUser THEN <<[token |-> user]>>
                 ELSE <<>>
    /\ deletes = <<>>
    /\ relay = <<>>
    /\ events = 0
    /\ faults = 0

----------------------------------------------------------------------------
(* Budgets of a run *)

\* A user event: a click or a change of the signed-in identity.
UserEvent ==
    /\ events < MaxEvents
    /\ events' = events + 1
    /\ UNCHANGED faults

\* A request that succeeds.
NoFault == UNCHANGED <<events, faults>>

\* A request that fails: because a policy or a key rejects it (allowed is FALSE),
\* or else because the network or the service fails.
Fails(allowed) ==
    /\ allowed => faults < MaxFaults
    /\ faults' = IF allowed THEN faults + 1 ELSE faults
    /\ UNCHANGED events

----------------------------------------------------------------------------
(* SearchInput: the submit button and the textarea are disabled while       *)
(* isLoading, and handleSubmit ignores an empty query without files.        *)

\* The bug of an input that stays enabled while a call is outstanding.
SubmitEnabledWhileLoading(query, files) ==
    ~TrimIsEmpty(query) \/ Len(files) > 0

SubmitEnabled(query, files) ==
    /\ ~isLoading
    /\ (~TrimIsEmpty(query) \/ Len(files) > 0)

----------------------------------------------------------------------------
(* Index.handleSubmit, one action per await *)

\* The bug of sending the transcript's entries as they are.
HistoryUnstripped(msgs) == msgs

\* history: messages.map(msg => ({ role: msg.role, content: msg.content }))
History(msgs) ==
    [i \in 1..Len(msgs) |-> [role |-> msgs[i].role, content |-> msgs[i].content]]

UserMessage(query, files) ==
    [id |-> ClientId, role |-> "user", content |-> UserContent(query),
     files |-> files]

AssistantMessage ==
    [id |-> ClientId, role |-> "assistant", content |-> Reply, files |-> <<>>]

ErrorMessage ==
    [id |-> ClientId, role |-> "assistant", content |-> ErrorText,
     files |-> <<>>]

\* What a returned invocation leaves: which of its awaits succeeded.
Finished(call, assistantSaved) ==
    [pc |-> "done", created |-> call.created, userSaved |-> call.userSaved,
     gateway |-> call.gateway, assistantSaved |-> assistantSaved]

\* The bug of not reading currentSessionId: a session is created at every submit.
FirstAwaitIgnoringSession(sessionId) ==
    IF user # NoUser THEN "create"
    ELSE IF sessionId # NoSession THEN "saveUser"
    ELSE "gateway"

\* The bug of creating a session without looking at user.
FirstAwaitWithoutUser(sessionId) ==
    IF sessionId = NoSession THEN "create" ELSE "saveUser"

\* The first await reached from the top of handleSubmit.
FirstAwait(sessionId) ==
    IF user # NoUser /\ sessionId = NoSession THEN "create"
    ELSE IF sessionId # NoSession THEN "saveUser"
    ELSE "gateway"

\* Lines 119-133: the user turn, setIsLoading(true), the request that follows.
handleSubmit(query, files) ==
    /\ UserEvent
    /\ SubmitEnabled(query, files)
    /\ messages' = Append(messages, UserMessage(query, files))
    /\ isLoading' = TRUE
    /\ calls' = Append(calls,
          [pc |-> FirstAwait(currentSessionId),
           query |-> query,
           userMessage |-> UserMessage(query, files),
           user |-> user,
           sessionId |-> currentSessionId,
           request |-> [message |-> query, model |-> selectedModel,
                        history |-> History(messages)],
           token |-> user,
           created |-> FALSE,
           userSaved |-> FALSE,
           gateway |-> "none"])
    /\ UNCHANGED <<storeVars, user, showResults, currentSessionId, loads,
                   sidebarVars, fetches, deletes, relay>>

\* The bug of saving the user message whether or not there is a session.
AfterCreateSavingAnyway(sessionId) == "saveUser"

\* The bug of returning from handleSubmit when no session could be created.
AfterCreateReturning(sessionId) ==
    IF sessionId # NoSession THEN "saveUser" ELSE "done"

\* Line 152, reached from the creation of the session: if (sessionId)
AfterCreate(sessionId) ==
    IF sessionId # NoSession THEN "saveUser" ELSE "gateway"

\* The bug of inserting under the state's currentSessionId.
SaveTargetActive(call) == currentSessionId

\* Lines 155 and 196: session_id: sessionId, the local of the invocation.
SaveTarget(call) == call.sessionId

\* Lines 134-149: the insert into chat_sessions returns the row, or an error,
\* or throws; only a returned row sets sessionId and currentSessionId.
CreateSession(c) ==
    /\ calls[c].pc = "create"
    /\ \/ /\ InsertSessionAllowed(calls[c].token, calls[c].user)
          /\ NoFault
          /\ chat_sessions' = chat_sessions \cup
                 {NewSession(calls[c].user, SessionTitle(calls[c].query))}
          /\ clock' = clock + 1
          /\ nextUuid' = nextUuid + 1
          /\ currentSessionId' = nextUuid
          /\ calls' = [calls EXCEPT ![c].sessionId = nextUuid,
                                    ![c].created = TRUE,
                                    ![c].pc = AfterCreate(nextUuid),
                                    ![c].token = user]
          /\ UNCHANGED chat_messages
       \/ /\ Fails(InsertSessionAllowed(calls[c].token, calls[c].user))
          /\ calls' = [calls EXCEPT
                         ![c].pc = AfterCreate(calls[c].sessionId)]
          /\ UNCHANGED <<storeVars, currentSessionId>>
    /\ UNCHANGED <<user, messages, showResults, isLoading, loads, sidebarVars,
                   fetches, deletes, relay>>

\* Lines 151-163: the insert of the user message; its result is not read.
SaveUserMessage(c) ==
    /\ calls[c].pc = "saveUser"
    /\ \/ /\ InsertMessageAllowed(calls[c].token, SaveTarget(calls[c]))
          /\ NoFault
          /\ chat_messages' = chat_messages \cup
                 {NewMessage(SaveTarget(calls[c]), "user",
                             calls[c].userMessage.content,
                             calls[c].userMessage.files)}
          /\ chat_sessions' = SessionsAfterMessageInsert(SaveTarget(calls[c]))
          /\ clock' = clock + 1
          /\ nextUuid' = nextUuid + 1
          /\ calls' = [calls EXCEPT ![c].userSaved = TRUE, ![c].pc = "gateway"]
       \/ /\ Fails(InsertMessageAllowed(calls[c].token, SaveTarget(calls[c])))
          /\ calls' = [calls EXCEPT ![c].pc = "gateway"]
          /\ UNCHANGED storeVars
    /\ UNCHANGED <<user, pageVars, loads, sidebarVars, fetches, deletes,
                   relay>>

----------------------------------------------------------------------------
(* server.js: app.post(['/chat', '/chat/']) *)

SystemPrompt == <<"Y">>
Models == {"chatgpt", "gemini"}
\* The call upstream returns a completion with a choice, returns one with no
\* choices, or throws (key, quota, network).
UpstreamOutcomes == {"ok", "empty", "throws"}
ServiceError == <<"A", "I", " ", "e", "r", "r", "o", "r">>
PayloadTooLarge == 413

\* Lines 36-43: the system prompt, the history, the new user turn.
\* A body without history: spreading undefined throws.
HasHistory(request) == "history" \in DOMAIN request

RelayMessages(request) ==
    IF HasHistory(request)
    THEN <<[role |-> "system", content |-> SystemPrompt]>>
             \o request.history
             \o <<[role |-> "user", content |-> request.message]>>
    ELSE <<>>

\* The bug of taking a completion without choices for an answer.
CompletesUnlessThrown(request, upstream) ==
    HasHistory(request) /\ upstream # "throws"

\* Lines 34-55 run to the end: nothing throws before res.json.
Completes(request, upstream) == HasHistory(request) /\ upstream = "ok"

\* Lines 45-46: openai.chat.completions.create({ model: 'gpt-3.5-turbo', ... });
\* req.body.model is not read.
RelayProvider(request) == "openai"

\* The bug of a handler that sets the error status before it knows the outcome.
PostWithErrorStatus(request, upstream) ==
    [request |-> request,
     provider |-> RelayProvider(request),
     messages |-> RelayMessages(request),
     upstream |-> IF HasHistory(request) THEN upstream ELSE "none",
     code |-> 500,
     status |-> IF Completes(request, upstream) THEN "success" ELSE "failed",
     response |-> IF Completes(request, upstream) THEN Reply ELSE <<>>,
     error |-> IF Completes(request, upstream) THEN <<>> ELSE ServiceError]

\* The exchange: the request, the call made upstream, and the response sent
\* (lines 52-55, or 59-63 when the call upstream throws).
Post(request, upstream) ==
    [request |-> request,
     provider |-> RelayProvider(request),
     messages |-> RelayMessages(request),
     upstream |-> IF HasHistory(request) THEN upstream ELSE "none",
     code |-> IF Completes(request, upstream) THEN 200 ELSE 500,
     status |-> IF Completes(request, upstream) THEN "success" ELSE "failed",
     response |-> IF Completes(request, upstream) THEN Reply ELSE <<>>,
     error |-> IF Completes(request, upstream) THEN <<>> ELSE ServiceError]

----------------------------------------------------------------------------
(* Index.handleSubmit: the gateway call *)

\* What the gateway call gives: fetch rejects, response.json() throws, or a
\* body arrives whose status is "failed" or "success".
GatewayOutcomes == {"rejected", "malformed", "failed", "success"}

\* The bug of reading data.response without looking at data.status.
GatewayAnswered(outcome) == outcome \in {"success", "failed"}

\* Line 184, reached only with a parsed body: data.status === "success"
GatewaySucceeded(outcome) == outcome = "success"

\* The gateway is server.js, listening on port 8000.  Its handler is reached by
\* a request that the network delivers and express.json() accepts.
ReachesRelay(outcome) == outcome \in {"success", "failed"}

\* What the OpenAI call of the handler did when the body says so.
Upstream(outcome) == IF outcome = "success" THEN "ok" ELSE "throws"

\* The status code of the response that fetch resolved with: the handler's, or
\* the one of the error page that express sends for a body it does not accept.
ResponseCode(request, outcome) ==
    IF ReachesRelay(outcome) THEN Post(request, Upstream(outcome)).code
    ELSE PayloadTooLarge

\* Lines 165-192 and 202-215: fetch, response.json(), data.status.
CallGateway(c) ==
    /\ calls[c].pc = "gateway"
    /\ \E outcome \in GatewayOutcomes :
          /\ IF outcome = "success" THEN NoFault ELSE Fails(TRUE)
          /\ IF GatewaySucceeded(outcome)
             THEN /\ messages' = Append(messages, AssistantMessage)
                  /\ showResults' = TRUE
                  /\ IF calls[c].sessionId # NoSession
                     THEN /\ calls' = [calls EXCEPT ![c].gateway = outcome,
                                                    ![c].pc = "saveAssistant",
                                                    ![c].token = user]
                          /\ UNCHANGED isLoading
                     ELSE /\ calls' = [calls EXCEPT ![c] = Finished(
                                  [calls[c] EXCEPT !.gateway = outcome], "none")]
                          /\ isLoading' = FALSE
             ELSE /\ messages' = Append(messages, ErrorMessage)
                  /\ isLoading' = FALSE
                  /\ calls' = [calls EXCEPT ![c] = Finished(
                                  [calls[c] EXCEPT !.gateway = outcome], "none")]
                  /\ UNCHANGED showResults
          /\ relay' = IF ReachesRelay(outcome)
                       THEN <<Post(calls[c].request, Upstream(outcome))>>
                       ELSE relay
    /\ UNCHANGED <<storeVars, user, currentSessionId, loads, sidebarVars,
                   fetches, deletes>>

\* Lines 193-201 and 205-215: the insert of the assistant message is inside the
\* try of the gateway call: its returned error is not read, a thrown one
\* reaches the catch.
SaveAssistantMessage(c) ==
    /\ calls[c].pc = "saveAssistant"
    /\ \/ /\ InsertMessageAllowed(calls[c].token, SaveTarget(calls[c]))
          /\ NoFault
          /\ chat_messages' = chat_messages \cup
                 {NewMessage(SaveTarget(calls[c]), "assistant", Reply,
                             <<>>)}
          /\ chat_sessions' = SessionsAfterMessageInsert(SaveTarget(calls[c]))
          /\ clock' = clock + 1
          /\ nextUuid' = nextUuid + 1
          /\ calls' = [calls EXCEPT
                         ![c] = Finished(calls[c], "saved")]
          /\ UNCHANGED messages
       \/ /\ Fails(InsertMessageAllowed(calls[c].token, SaveTarget(calls[c])))
          /\ calls' = [calls EXCEPT
                         ![c] = Finished(calls[c], "error")]
          /\ UNCHANGED <<storeVars, messages>>
       \/ /\ Fails(TRUE)
          /\ messages' = Append(messages, ErrorMessage)
          /\ calls' = [calls EXCEPT
                         ![c] = Finished(calls[c], "threw")]
          /\ UNCHANGED storeVars
    /\ isLoading' = FALSE
    /\ UNCHANGED <<user, showResults, currentSessionId, loads, sidebarVars,
                   fetches, deletes, relay>>

----------------------------------------------------------------------------
(* Index.loadSession, handleSelectSession and handleNewChat *)

\* The sidebar renders the session list only for a signed-in user, once
\* fetchSessions has finished.
ListShown == user # NoUser /\ ~sidebarLoading

Listed(sessionId) == \E i \in 1..Len(sessions) : sessions[i].id = sessionId

\* The bug of a map that leaves files out.
LoadedMessagesWithoutFiles(data) ==
    [i \in 1..Len(data) |-> [id |-> data[i].id, role |-> data[i].role,
                             content |-> data[i].content, files |-> <<>>]]

\* data.map(msg => ({ id, role, content, files: msg.files || [] }))
LoadedMessages(data) ==
    [i \in 1..Len(data) |-> [id |-> data[i].id, role |-> data[i].role,
                             content |-> data[i].content, files |-> data[i].files]]

\* handleSelectSession(session.id): the select is sent.
loadSession(sessionId) ==
    /\ UserEvent
    /\ ListShown
    /\ Listed(sessionId)
    /\ loads' = Append(loads, [id |-> sessionId, token |-> user,
                               status |-> "pending"])
    /\ UNCHANGED <<storeVars, user, pageVars, calls, sidebarVars, fetches,
                   deletes, relay>>

\* The bug of adding the rows returned to the transcript shown.
TranscriptExtendedBy(data) == messages \o LoadedMessages(data)

\* The transcript that loadSession sets from the rows returned.
TranscriptOf(data) == LoadedMessages(data)

\* The bug of a failed load that clears the page.
LoadSessionFailedClearing ==
    /\ messages' = <<>>
    /\ showResults' = FALSE
    /\ currentSessionId' = NoSession

\* Lines 89 and 100-102: with an error, or in the catch, nothing is set.
LoadSessionFailed == UNCHANGED <<messages, showResults, currentSessionId>>

\* Lines 89-102: the select returns rows (none when the policy hides them), or
\* it returns an error or throws, and then nothing is set.
LoadSessionDone(l) ==
    /\ loads[l].status = "pending"
    /\ \/ /\ NoFault
          /\ messages' = TranscriptOf(SelectMessages(loads[l].token, loads[l].id))
          /\ showResults' = (Len(messages') > 0)
          /\ currentSessionId' = loads[l].id
          /\ loads' = [loads EXCEPT ![l].status = "loaded"]
       \/ /\ Fails(TRUE)
          /\ loads' = [loads EXCEPT ![l].status = "failed"]
          /\ LoadSessionFailed
    /\ UNCHANGED <<storeVars, user, isLoading, calls, sidebarVars, fetches,
                   deletes, relay>>

\* The bug of a New Chat that leaves the active session set.
NewChatKeepingSession ==
    /\ messages' = <<>>
    /\ showResults' = FALSE
    /\ UNCHANGED currentSessionId

\* Lines 113-117.
NewChat ==
    /\ messages' = <<>>
    /\ showResults' = FALSE
    /\ currentSessionId' = NoSession

handleNewChat ==
    /\ UserEvent
    /\ NewChat
    /\ UNCHANGED <<storeVars, user, isLoading, calls, loads, sidebarVars,
                   fetches, deletes, relay>>

----------------------------------------------------------------------------
(* AppSidebar *)

\* useAuth().user changes; the effect on [user] fetches the list or empties it.
AuthChange(u) ==
    /\ UserEvent
    /\ u # user
    /\ user' = u
    /\ IF u # NoUser
       THEN /\ fetches' = Append(fetches, [token |-> u])
            /\ sidebarLoading' = TRUE
            /\ UNCHANGED sessions
       ELSE /\ sessions' = <<>>
            /\ sidebarLoading' = FALSE
            /\ UNCHANGED fetches
    /\ UNCHANGED <<storeVars, pageVars, calls, loads, deletes, relay>>

\* fetchSessions after its await: data, a returned error, or a throw.
FetchSessionsDone(f) ==
    /\ \/ /\ NoFault
          /\ sessions' = SelectSessions(fetches[f].token)
       \/ /\ Fails(TRUE)
          /\ UNCHANGED sessions
       \/ /\ Fails(TRUE)
          /\ sessions' = <<>>
    /\ fetches' = RemoveAt(fetches, f)
    /\ sidebarLoading' = FALSE
    /\ UNCHANGED <<storeVars, user, pageVars, calls, loads, deletes, relay>>

\* prev.filter((s) => s.id !== sessionId)
WithoutSession(list, sessionId) ==
    SelectSeq(list, LAMBDA s : s.id # sessionId)

\* The click on a listed session's delete button: the delete is sent.
handleDeleteSession(sessionId) ==
    /\ UserEvent
    /\ ListShown
    /\ Listed(sessionId)
    /\ deletes' = Append(deletes, [id |-> sessionId, token |-> user,
                                   currentSessionId |-> currentSessionId,
                                   status |-> "pending"])
    /\ UNCHANGED <<storeVars, user, pageVars, calls, loads, sidebarVars,
                   fetches, relay>>

\* Lines 463-468: without an error the session leaves the list, and the page
\* starts a new chat when it was the current one at the click.
DeleteSessionDone(d) ==
    /\ deletes[d].status = "pending"
    /\ \/ /\ NoFault
          /\ deletes' = [deletes EXCEPT ![d].status = "done"]
          /\ chat_sessions' = chat_sessions \
                 DeletedSessions(deletes[d].token, deletes[d].id)
          /\ chat_messages' = chat_messages \
                 CascadeDeleted(DeletedSessions(deletes[d].token, deletes[d].id))
          /\ sessions' = WithoutSession(sessions, deletes[d].id)
          /\ IF deletes[d].currentSessionId = deletes[d].id
             THEN NewChat
             ELSE UNCHANGED <<messages, showResults, currentSessionId>>
       \/ /\ Fails(TRUE)
          /\ deletes' = [deletes EXCEPT ![d].status = "error"]
          /\ UNCHANGED <<chat_sessions, chat_messages, sessions, messages,
                         showResults, currentSessionId>>
    /\ UNCHANGED <<clock, nextUuid, user, isLoading, calls, loads,
                   sidebarLoading, fetches, relay>>

----------------------------------------------------------------------------
(* What the user types and attaches: a typed question, and an attachment    *)
(* sent without any text.                                                   *)

Inputs == {[query |-> <<"h", "i">>, files |-> <<>>],
           [query |-> <<>>, files |-> <<"a.pdf">>]}

ListedIds == {sessions[i].id : i \in 1..Len(sessions)}

Submit(inputs) ==
    \/ \E in \in inputs : handleSubmit(in.query, in.files)
    \/ \E c \in 1..Len(calls) : CreateSession(c)
    \/ \E c \in 1..Len(calls) : SaveUserMessage(c)
    \/ \E c \in 1..Len(calls) : CallGateway(c)
    \/ \E c \in 1..Len(calls) : SaveAssistantMessage(c)

Next ==
    \/ Submit(Inputs)
    \/ \E sessionId \in ListedIds : loadSession(sessionId)
    \/ \E l \in 1..Len(loads) : LoadSessionDone(l)
    \/ handleNewChat
    \/ \E u \in {NoUser} \cup Users : AuthChange(u)
    \/ \E f \in 1..Len(fetches) : FetchSessionsDone(f)
    \/ \E sessionId \in ListedIds : handleDeleteSession(sessionId)
    \/ \E d \in 1..Len(deletes) : DeleteSessionDone(d)

Spec == Init /\ [][Next]_vars

\* Every await of handleSubmit resolves or rejects: a promise that is pending
\* is settled at some point by the store or by the gateway.
AwaitsSettle ==
    /\ WF_vars(\E c \in 1..Len(calls) : CreateSession(c))
    /\ WF_vars(\E c \in 1..Len(calls) : SaveUserMessage(c))
    /\ WF_vars(\E c \in 1..Len(calls) : CallGateway(c))
    /\ WF_vars(\E c \in 1..Len(calls) : SaveAssistantMessage(c))

SpecLive == Init /\ [][Next]_vars /\ AwaitsSettle

----------------------------------------------------------------------------
(* Runs of submit calls only, by a signed-in user, with a wider choice of   *)
(* what is typed: a query of 50 characters, one of 51, and a blank one.     *)

Digits == <<"0", "1", "2", "3", "4", "5", "6", "7", "8", "9">>
Typed(n) == [i \in 1..n |-> Digits[(i % 10) + 1]]

SubmitInputs ==
    Inputs \cup {[query |-> Typed(TitleLen), files |-> <<>>],
                 [query |-> Typed(TitleLen + 1), files |-> <<>>],
                 [query |-> <<" ">>, files |-> <<"a.pdf">>]}

InitSubmit == Init /\ user # NoUser

NextSubmit == Submit(SubmitInputs)

SpecSubmit == InitSubmit /\ [][NextSubmit]_vars

----------------------------------------------------------------------------
(* A user who comes back: the page is opened with conversations in the      *)
(* store, each one made by a submit of "hi" in a new chat that succeeded at  *)
(* every await (a session row, then the user turn, then the assistant turn). *)

MaxStored == 11

StoredSessions(n) ==
    {[id |-> 3 * k - 2, user_id |-> "u1", title |-> SessionTitle(<<"h", "i">>),
      created_at |-> 3 * k - 2, updated_at |-> 3 * k - 2] : k \in 1..n}

StoredMessages(n) ==
    {[id |-> 3 * k - 1, session_id |-> 3 * k - 2, role |-> "user",
      content |-> UserContent(<<"h", "i">>), files |-> <<>>,
      created_at |-> 3 * k - 1] : k \in 1..n}
    \cup
    {[id |-> 3 * k, session_id |-> 3 * k - 2, role |-> "assistant",
      content |-> Reply, files |-> <<>>, created_at |-> 3 * k] : k \in 1..n}

InitReturning ==
    /\ \E n \in 0..MaxStored :
          /\ chat_sessions = StoredSessions(n)
          /\ chat_messages = StoredMessages(n)
          /\ clock = 3 * n + 1
          /\ nextUuid = 3 * n + 1
    /\ user = "u1"
    /\ messages = <<[id |-> DemoId, role |-> "assistant", content |-> Welcome,
                     files |-> <<>>]>>
    /\ showResults = TRUE
    /\ isLoading = FALSE
    /\ currentSessionId = NoSession
    /\ calls = <<>>
    /\ loads = <<>>
    /\ sessions = <<>>
    /\ sidebarLoading = TRUE
    /\ fetches = <<[token |-> "u1"]>>
    /\ deletes = <<>>
    /\ relay = <<>>
    /\ events = 0
    /\ faults = 0

NextReturning ==
    \/ \E f \in 1..Len(fetches) : FetchSessionsDone(f)
    \/ \E sessionId \in ListedIds : loadSession(sessionId)
    \/ \E l \in 1..Len(loads) : LoadSessionDone(l)
    \/ handleNewChat
    \/ \E sessionId \in ListedIds : handleDeleteSession(sessionId)
    \/ \E d \in 1..Len(deletes) : DeleteSessionDone(d)

SpecReturning == InitReturning /\ [][NextReturning]_vars

\* The same user, submitting as well: a submit in flight while the sidebar
\* selects, starts or deletes a conversation.
NextSwitching ==
    \/ Submit(Inputs)
    \/ NextReturning

\* The number of earlier conversations in the store when the page is opened.
MaxEarlier == 2

InitSwitching ==
    /\ \E n \in 1..MaxEarlier :
          /\ chat_sessions = StoredSessions(n)
          /\ chat_messages = StoredMessages(n)
          /\ clock = 3 * n + 1
          /\ nextUuid = 3 * n + 1
    /\ user = "u1"
    /\ messages = <<[id |-> DemoId, role |-> "assistant", content |-> Welcome,
                     files |-> <<>>]>>
    /\ showResults = TRUE
    /\ isLoading = FALSE
    /\ currentSessionId = NoSession
    /\ calls = <<>>
    /\ loads = <<>>
    /\ sessions = <<>>
    /\ sidebarLoading = TRUE
    /\ fetches = <<[token |-> "u1"]>>
    /\ deletes = <<>>
    /\ relay = <<>>
    /\ events = 0
    /\ faults = 0

SpecSwitching == InitSwitching /\ [][NextSwitching]_vars

----------------------------------------------------------------------------
(* A conversation of a signed-in user that starts from New Chat: submits,   *)
(* the sidebar's fetch and loads of the sessions it lists.                   *)

InitConversation ==
    /\ chat_sessions = {}
    /\ chat_messages = {}
    /\ clock = 1
    /\ nextUuid = 1
    /\ user \in Users
    /\ messages = <<>>
    /\ showResults = FALSE
    /\ isLoading = FALSE
    /\ currentSessionId = NoSession
    /\ calls = <<>>
    /\ loads = <<>>
    /\ sessions = <<>>
    /\ sidebarLoading = TRUE
    /\ fetches = <<[token |-> user]>>
    /\ deletes = <<>>
    /\ relay = <<>>
    /\ events = 0
    /\ faults = 0

NextConversation ==
    \/ Submit(Inputs)
    \/ \E f \in 1..Len(fetches) : FetchSessionsDone(f)
    \/ \E sessionId \in ListedIds : loadSession(sessionId)
    \/ \E l \in 1..Len(loads) : LoadSessionDone(l)

SpecConversation == InitConversation /\ [][NextConversation]_vars

----------------------------------------------------------------------------
(* The relay alone, serving any client: the bodies that can be posted to it *)

MaxHistory == 2

Turns == {[role |-> "user", content |-> <<"h", "i">>],
          [role |-> "user", content |-> Hello],
          [role |-> "assistant", content |-> Reply]}

RECURSIVE Histories(_)
Histories(n) ==
    IF n = 0 THEN {<<>>}
    ELSE Histories(n - 1) \cup
         {Append(h, t) : h \in {g \in Histories(n - 1) : Len(g) = n - 1},
                         t \in Turns}

RelayRequests ==
    {[message |-> m, model |-> md, history |-> h] :
        m \in {<<>>, <<"h", "i">>}, md \in Models, h \in Histories(MaxHistory)}
    \cup
    {[message |-> m, model |-> md] : m \in {<<>>, <<"h", "i">>}, md \in Models}

PostChat(request, upstream) ==
    /\ relay' = <<Post(request, upstream)>>
    /\ UNCHANGED <<storeVars, user, pageVars, calls, loads, sidebarVars,
                   fetches, deletes, events, faults>>

InitRelay == Init /\ user = NoUser

NextRelay ==
    \E request \in RelayRequests :
        \E upstream \in UpstreamOutcomes : PostChat(request, upstream)

SpecRelay == InitRelay /\ [][NextRelay]_vars

----------------------------------------------------------------------------
(* The claims *)

Running == {c \in 1..Len(calls) : calls[c].pc # "done"}

Succeeded(call) ==
    /\ call.pc = "done"
    /\ call.userSaved
    /\ call.gateway = "success"
    /\ call.assistantSaved = "saved"

StoredInOrder == OrderByCreatedAt(chat_messages)

\* C1: in a run of submit calls by a signed-in user that starts without an
\* active session, once N calls have been made and each one succeeded at every
\* await, the store holds exactly 2N messages, all under the one session that
\* exists, and in created_at order they are the user turn and the assistant
\* turn of the 1st call, of the 2nd call, and so on: the turns shown in the
\* transcript after the welcome message.
C1_TwoMessagesPerCallInOneSession ==
    (Len(calls) > 0 /\ \A c \in 1..Len(calls) : Succeeded(calls[c])) =>
        /\ Cardinality(chat_messages) = 2 * Len(calls)
        /\ Cardinality(chat_sessions) = 1
        /\ \A m \in chat_messages : \E s \in chat_sessions : m.session_id = s.id
        /\ Len(messages) = 1 + 2 * Len(calls)
        /\ \A k \in 1..Len(calls) :
              /\ StoredInOrder[2 * k - 1].role = "user"
              /\ StoredInOrder[2 * k - 1].content = messages[2 * k].content
              /\ StoredInOrder[2 * k - 1].files = messages[2 * k].files
              /\ messages[2 * k].role = "user"
              /\ StoredInOrder[2 * k].role = "assistant"
              /\ StoredInOrder[2 * k].content = messages[2 * k + 1].content
              /\ messages[2 * k + 1].role = "assistant"

C1_Witness ==
    /\ Len(calls) = 2
    /\ \A c \in 1..Len(calls) : Succeeded(calls[c])
    /\ Cardinality(chat_messages) = 4

\* C6: at most one handleSubmit invocation is between its start and its end,
\* and while one is, isLoading is true (so that SearchInput lets no other start).
C6_OneSubmitInFlight ==
    /\ Cardinality(Running) <= 1
    /\ Running # {} => isLoading

C6_Witness ==
    /\ Len(calls) = 2
    /\ calls[1].pc = "done"
    /\ calls[2].pc # "done"
    /\ isLoading

\* C7: a handleSubmit invocation that started without an active session, with
\* a user signed in, and whose insert into chat_sessions returned a row, has
\* created a session of that user whose title is the first 50 characters of the
\* query, or "AI Chat" when the query is empty, and that session is the active
\* one.
C7_TitleAndAdoption ==
    \A c \in Running :
        calls[c].created =>
            \E s \in chat_sessions :
                /\ s.id = calls[c].sessionId
                /\ s.id = currentSessionId
                /\ s.user_id = calls[c].user
                /\ IF calls[c].query = <<>>
                   THEN s.title = <<"A", "I", " ", "C", "h", "a", "t">>
                   ELSE /\ Len(s.title) <= 50
                        /\ Len(s.title) <= Len(calls[c].query)
                        /\ Len(s.title) = 50 \/ Len(s.title) = Len(calls[c].query)
                        /\ \A i \in 1..Len(s.title) : s.title[i] = calls[c].query[i]

C7_Witness ==
    \E c \in Running :
        /\ calls[c].created
        /\ Len(calls[c].query) > 50
        /\ \E s \in chat_sessions : s.id = currentSessionId /\ Len(s.title) = 50

GatewayFailures == {"rejected", "malformed", "failed"}

EndsWithError(msgs) ==
    /\ Len(msgs) > 0
    /\ msgs[Len(msgs)].role = "assistant"
    /\ msgs[Len(msgs)].content = ErrorText

\* C2: the step in which a handleSubmit invocation learns that its gateway
\* call failed (the fetch rejected, the body did not parse, or the status was
\* not "success") leaves chat_messages as it was, saves no assistant message
\* later, and adds exactly one entry to the transcript: the error entry.
C2_GatewayFailureSavesNothing ==
    [][\A c \in 1..Len(calls) :
          (/\ calls[c].pc = "gateway"
           /\ calls'[c].pc # "gateway"
           /\ calls'[c].gateway # "success") =>
              /\ calls'[c].gateway \in GatewayFailures
              /\ chat_messages' = chat_messages
              /\ calls'[c].pc = "done"
              /\ calls'[c].assistantSaved = "none"
              /\ Len(messages') = Len(messages) + 1
              /\ SubSeq(messages', 1, Len(messages)) = messages
              /\ EndsWithError(messages')]_vars

C2_Witness ==
    \E c \in 1..Len(calls) :
        /\ calls[c].pc = "done"
        /\ calls[c].gateway \in GatewayFailures
        /\ calls[c].userSaved
        /\ EndsWithError(messages)
        /\ Cardinality(chat_messages) = 1
        /\ \A m \in chat_messages : m.role = "user"

\* C3: the step in which a delete of a session returns to a caller who does not
\* own the session removes no row: chat_sessions and chat_messages are as they
\* were, and the owner's select of sessions still returns the session.
C3_DeleteByNonOwnerRemovesNothing ==
    [][\A d \in 1..Len(deletes) :
          \A s \in chat_sessions :
              (/\ deletes[d].status = "pending"
               /\ deletes'[d].status # "pending"
               /\ s.id = deletes[d].id
               /\ s.user_id # deletes[d].token) =>
                  /\ chat_sessions' = chat_sessions
                  /\ chat_messages' = chat_messages
                  /\ \E i \in 1..Len(SelectSessions(s.user_id)') :
                        SelectSessions(s.user_id)'[i] = s]_vars

C3_Witness ==
    \E d \in 1..Len(deletes) :
        \E s \in chat_sessions :
            /\ deletes[d].status = "done"
            /\ s.id = deletes[d].id
            /\ s.user_id # deletes[d].token
            /\ \E m \in chat_messages : m.session_id = s.id

\* C4: the step in which loadSession's select returns for a session that does
\* not exist, or that the caller does not own, leaves the transcript and the
\* active session as they were.
C4_LoadOfHiddenSessionChangesNothing ==
    [][\A l \in 1..Len(loads) :
          (/\ loads[l].status = "pending"
           /\ loads'[l].status # "pending"
           /\ ~OwnsParent(loads[l].token, loads[l].id)) =>
              /\ messages' = messages
              /\ currentSessionId' = currentSessionId]_vars

\* C5: a session's updated_at is the time of the last message appended to it.
C5_AppendRefreshesUpdatedAt ==
    \A s \in chat_sessions :
        \A m \in chat_messages :
            m.session_id = s.id => s.updated_at >= m.created_at

CreatedAtOf(id) == (CHOOSE m \in chat_messages : m.id = id).created_at

\* C8: the step in which loadSession's select returns the rows of a session to
\* its owner sets the transcript to exactly the messages stored under that
\* session, each once, with its role, content and files, in strictly ascending
\* created_at order.
C8_LoadedInCreatedAtOrder ==
    [][\A l \in 1..Len(loads) :
          (/\ loads[l].status = "pending"
           /\ loads'[l].status = "loaded"
           /\ OwnsParent(loads[l].token, loads[l].id)) =>
              LET rows == {m \in chat_messages : m.session_id = loads[l].id}
              IN /\ Len(messages') = Cardinality(rows)
                 /\ \A i \in 1..Len(messages') :
                       \E m \in rows :
                           /\ m.id = messages'[i].id
                           /\ m.role = messages'[i].role
                           /\ m.content = messages'[i].content
                           /\ m.files = messages'[i].files
                 /\ \A i, j \in 1..Len(messages') :
                       i < j => CreatedAtOf(messages'[i].id)
                                    < CreatedAtOf(messages'[j].id)]_vars

C8_Witness ==
    \E l \in 1..Len(loads) :
        /\ loads[l].status = "loaded"
        /\ OwnsParent(loads[l].token, loads[l].id)
        /\ currentSessionId = loads[l].id
        /\ Len(messages) >= 2
        /\ \A i \in 1..Len(messages) :
              \E m \in chat_messages :
                  m.id = messages[i].id /\ m.session_id = loads[l].id

ShowsStoredRows(l) ==
    LET data == SelectMessages(loads[l].token, loads[l].id)
    IN /\ Len(data) > 0
       /\ Len(messages) >= Len(data)
       /\ SubSeq(messages, Len(messages) - Len(data) + 1, Len(messages))
              = LoadedMessages(data)

\* C9: when a load of a session has returned, the session is the active one and
\* the transcript still ends with the rows the store holds for it (nothing was
\* written or shown since), the return of a second load of that session with
\* the same token leaves the transcript and the active session as they are.
C9_SecondLoadChangesNothing ==
    [][\A k, l \in 1..Len(loads) :
          (/\ k # l
           /\ loads[k].status = "loaded"
           /\ loads[k].id = loads[l].id
           /\ loads[k].token = loads[l].token
           /\ loads[l].status = "pending"
           /\ loads'[l].status = "loaded"
           /\ currentSessionId = loads[l].id
           /\ ShowsStoredRows(l)) =>
              /\ messages' = messages
              /\ currentSessionId' = currentSessionId]_vars

C9_Witness ==
    \E k, l \in 1..Len(loads) :
        /\ k # l
        /\ loads[k].status = "loaded"
        /\ loads[l].status = "loaded"
        /\ loads[k].id = loads[l].id
        /\ loads[k].token = loads[l].token
        /\ currentSessionId = loads[l].id
        /\ Len(messages) >= 2
        /\ messages = LoadedMessages(SelectMessages(loads[l].token, loads[l].id))

\* C10: a New Chat click (the one user event that starts no submit, load or
\* delete and changes no identity) empties the transcript and clears the
\* active session, and leaves chat_sessions and chat_messages as they were.
C10_NewChatClearsPageOnly ==
    [][(/\ events' = events + 1
        /\ UNCHANGED <<calls, loads, deletes, user>>) =>
           /\ messages' = <<>>
           /\ currentSessionId' = NoSession
           /\ UNCHANGED <<chat_sessions, chat_messages>>]_vars

C10_Witness ==
    /\ messages = <<>>
    /\ currentSessionId = NoSession
    /\ loads = <<>>
    /\ deletes = <<>>
    /\ chat_sessions # {}
    /\ chat_messages # {}
    /\ \E c \in 1..Len(calls) : calls[c].created

SaveReturns(c) ==
    /\ calls[c].pc \in {"saveUser", "saveAssistant"}
    /\ calls'[c].pc # calls[c].pc

SavesAsOwner(c) ==
    /\ calls[c].token # NoUser
    /\ \E s \in chat_sessions :
          s.id = calls[c].sessionId /\ s.user_id = calls[c].token

\* C11: a row enters chat_messages only in the step in which an insert of
\* handleSubmit returns, under the session named in the insert, and only when
\* that session exists and belongs to the identity whose token the insert
\* carried; the insert of any other identity leaves chat_messages as it was.
C11_MessagesInsertedByOwnerOnly ==
    [][/\ \A m \in chat_messages' \ chat_messages :
             \E c \in 1..Len(calls) :
                 /\ SaveReturns(c)
                 /\ SavesAsOwner(c)
                 /\ m.session_id = calls[c].sessionId
       /\ \A c \in 1..Len(calls) :
             (SaveReturns(c) /\ ~SavesAsOwner(c)) =>
                 chat_messages' = chat_messages]_vars

C11_Witness ==
    \E c \in 1..Len(calls) :
        /\ calls[c].pc = "gateway"
        /\ ~calls[c].created
        /\ ~calls[c].userSaved
        /\ calls[c].user # NoUser
        /\ faults = 0
        /\ \E s \in chat_sessions :
              s.id = calls[c].sessionId /\ s.user_id # calls[c].user

\* C12: the step in which a delete of a session returns to the session's owner
\* removes the session and every message stored under it, and after every step
\* each stored message's session_id is the id of a stored session.
C12_OwnerDeleteCascades ==
    [][/\ \A m \in chat_messages' :
             \E s \in chat_sessions' : s.id = m.session_id
       /\ \A d \in 1..Len(deletes) :
             (/\ deletes[d].status = "pending"
              /\ deletes'[d].status = "done"
              /\ \E s \in chat_sessions :
                    s.id = deletes[d].id /\ s.user_id = deletes[d].token) =>
                 /\ \A s \in chat_sessions' : s.id # deletes[d].id
                 /\ \A m \in chat_messages' : m.session_id # deletes[d].id
                 /\ \A s \in chat_sessions :
                       s.id # deletes[d].id => s \in chat_sessions'
                 /\ \A m \in chat_messages :
                       m.session_id # deletes[d].id => m \in chat_messages']_vars

C12_Witness ==
    /\ \E d \in 1..Len(deletes) : deletes[d].status = "done"
    /\ \E c \in 1..Len(calls) : calls[c].pc = "done" /\ calls[c].userSaved
    /\ chat_sessions = {}
    /\ chat_messages = {}

\* C13: the request that handleSubmit builds holds, as history, one {role,
\* content} pair for each entry of the transcript as it was when the submit
\* started, in the transcript's order and without ids or file names, and, as
\* message, the query; the new user turn is appended to the transcript and is
\* not in the history.  The request is not changed before it is sent, and it
\* is the one the relay receives.
C13_RequestHoldsPriorTranscript ==
    [][/\ Len(calls') = Len(calls) + 1 =>
             LET call == calls'[Len(calls')]
             IN /\ Len(call.request.history) = Len(messages)
                /\ \A i \in 1..Len(messages) :
                      call.request.history[i] =
                          [role |-> messages[i].role,
                           content |-> messages[i].content]
                /\ call.request.message = call.query
                /\ Len(messages') = Len(messages) + 1
                /\ SubSeq(messages', 1, Len(messages)) = messages
                /\ messages'[Len(messages')].role = "user"
       /\ \A c \in 1..Len(calls) :
             calls[c].pc # "done" =>
                 /\ calls'[c].pc # "done" =>
                        calls'[c].request = calls[c].request
                 /\ (/\ calls[c].pc = "gateway"
                     /\ calls'[c].pc # "gateway"
                     /\ calls'[c].gateway \in {"success", "failed"}) =>
                        /\ Len(relay') = 1
                        /\ relay'[1].request = calls[c].request]_vars

C13_Witness ==
    /\ Len(calls) = 2
    /\ Len(relay) = 1
    /\ Len(relay[1].request.history) = 3
    /\ relay[1].request.history[2] = [role |-> "user", content |-> Hello]
    /\ relay[1].request.history[3].role = "assistant"
    /\ relay[1].request.message = <<"h", "i">>

\* C14: the step in which the gateway call of handleSubmit returns with a
\* response whose status code is not 2xx (the relay's 500, the error page of
\* express), or whose body does not parse, ends the submit and adds exactly one
\* entry to the transcript, the error entry: no assistant message made of the
\* response is shown or saved.
C14_ErrorStatusOrBadBodyIsFailure ==
    [][\A c \in 1..Len(calls) :
          (/\ calls[c].pc = "gateway"
           /\ calls'[c].pc # "gateway"
           /\ calls'[c].gateway # "rejected"
           /\ \/ ResponseCode(calls[c].request, calls'[c].gateway)
                     \notin 200..299
              \/ calls'[c].gateway = "malformed") =>
              /\ calls'[c].pc = "done"
              /\ calls'[c].assistantSaved = "none"
              /\ Len(messages') = Len(messages) + 1
              /\ SubSeq(messages', 1, Len(messages)) = messages
              /\ messages'[Len(messages')].content = ErrorText
              /\ messages'[Len(messages')].content # Reply]_vars

C14_Witness ==
    \E c \in 1..Len(calls) :
        /\ calls[c].pc = "done"
        /\ calls[c].gateway = "failed"
        /\ Len(relay) = 1
        /\ relay[1].code = 500
        /\ relay[1].status = "failed"
        /\ EndsWithError(messages)

\* The provider that a value of the request's model field names.
ProviderNamed(model) == IF model = "chatgpt" THEN "openai" ELSE "google"

\* C15: the response that the relay sends to a request is produced by the
\* provider that the request's model field names: OpenAI for "chatgpt",
\* Google for "gemini".
C15_ResponseFromProviderNamed ==
    \A i \in 1..Len(relay) :
        relay[i].status = "success" =>
            relay[i].provider = ProviderNamed(relay[i].request.model)

\* C16: after a fetch and after any deletions from it, the sidebar's list holds
\* at most 10 sessions, each once, the more recently updated before the less
\* recently updated.
C16_ListNewestFirstAtMostTen ==
    /\ Len(sessions) <= 10
    /\ \A i, j \in 1..Len(sessions) :
          i < j => /\ sessions[i].updated_at >= sessions[j].updated_at
                   /\ sessions[i].id # sessions[j].id

C16_Witness ==
    /\ \E d \in 1..Len(deletes) : deletes[d].status = "done"
    /\ Len(sessions) = 9
    /\ Cardinality(chat_sessions) = 10

\* C18: the step in which the last outstanding loadSession returns, all of
\* them with rows, leaves as active session the one requested last, and as
\* transcript the rows of that session.
C18_SessionRequestedLastWins ==
    [][\A l \in 1..Len(loads) :
          (/\ Len(loads) >= 2
           /\ loads[l].status = "pending"
           /\ \A k \in 1..Len(loads) : loads'[k].status = "loaded") =>
              /\ currentSessionId' = loads[Len(loads)].id
              /\ messages' = LoadedMessages(
                     SelectMessages(loads[Len(loads)].token,
                                    loads[Len(loads)].id))]_vars

\* C17: in every step each stored message either stays as it is, with its id,
\* session_id, role, content, files and created_at, or is removed together
\* with the session it is stored under; and no two stored messages have the
\* same id.
C17_MessagesNeverChange ==
    [][/\ \A m \in chat_messages :
             \/ m \in chat_messages'
             \/ /\ \A r \in chat_messages' : r.id # m.id
                /\ \E s \in chat_sessions : s.id = m.session_id
                /\ \A s \in chat_sessions' : s.id # m.session_id
       /\ \A a, b \in chat_messages' : a.id = b.id => a = b]_vars

C17_Witness ==
    /\ Cardinality(chat_messages) = 2
    /\ \E d \in 1..Len(deletes) :
          /\ deletes[d].status = "done"
          /\ \A m \in chat_messages : m.session_id = deletes[d].id
    /\ \E m \in chat_messages : m.role = "user" /\ m.content = <<"h", "i">>
    /\ \E m \in chat_messages : m.role = "assistant" /\ m.content = Reply

\* C19: the step in which the gateway call of a handleSubmit invocation
\* returns, and its assistant turn or its error entry is appended, finds the
\* transcript of the conversation the submit was made in: its last entry is
\* the user turn of that submit.
C19_TurnAppendedToItsConversation ==
    [][\A c \in 1..Len(calls) :
          (calls[c].pc = "gateway" /\ calls'[c].pc # "gateway") =>
              /\ Len(messages) > 0
              /\ messages[Len(messages)] = calls[c].userMessage
              /\ Len(messages') = Len(messages) + 1]_vars

\* C20: the step in which the gateway call returns with success appends
\* exactly one entry, the assistant turn, and the step in which the insert of
\* that assistant message returns, whether it saved the row or failed, leaves
\* the transcript as it is.
C20_AssistantSaveFailureAddsNothing ==
    [][\A c \in 1..Len(calls) :
          /\ (/\ calls[c].pc = "gateway"
              /\ calls'[c].pc # "gateway"
              /\ calls'[c].gateway = "success") =>
                 /\ Len(messages') = Len(messages) + 1
                 /\ SubSeq(messages', 1, Len(messages)) = messages
                 /\ messages'[Len(messages')].role = "assistant"
                 /\ messages'[Len(messages')].content = Reply
          /\ (calls[c].pc = "saveAssistant" /\ calls'[c].pc = "done") =>
                 messages' = messages]_vars

\* C21: the step in which the insert of the session, or the insert of the
\* user message, returns without having stored its row (an error returned, a
\* throw, a rejection by a policy) leaves the transcript, with the user turn
\* in it, and isLoading as they are, adds no entry, and takes the invocation
\* to its gateway call with the request unchanged.
C21_StoreFailureDoesNotStopSubmit ==
    [][\A c \in 1..Len(calls) :
          (\/ /\ calls[c].pc = "create"
              /\ calls'[c].pc # "create"
              /\ ~calls'[c].created
           \/ /\ calls[c].pc = "saveUser"
              /\ calls'[c].pc # "saveUser"
              /\ ~calls'[c].userSaved) =>
              /\ messages' = messages
              /\ isLoading /\ isLoading'
              /\ calls'[c].pc = "gateway"
              /\ calls'[c].request = calls[c].request
              /\ calls'[c].userMessage = calls[c].userMessage]_vars

C21_Witness ==
    /\ events = 1
    /\ faults = 1
    /\ user # NoUser
    /\ Len(calls) = 1
    /\ calls[1].pc = "done"
    /\ ~calls[1].created
    /\ ~calls[1].userSaved
    /\ calls[1].gateway = "success"
    /\ Len(relay) = 1
    /\ Len(messages) = 3
    /\ messages[2].role = "user"
    /\ messages[3].content = Reply

\* C22: the step in which handleSubmit's insert of a session returns the row
\* finds, as first user turn of the transcript, the user turn of that same
\* submit: the query the title was cut from is the conversation's first
\* user message.
C22_TitleFromFirstUserMessage ==
    [][\A c \in 1..Len(calls) :
          (calls[c].pc = "create" /\ calls'[c].created) =>
              \A i \in 1..Len(messages) :
                  (/\ messages[i].role = "user"
                   /\ \A j \in 1..(i - 1) : messages[j].role # "user") =>
                      /\ messages[i] = calls[c].userMessage
                      /\ \E s \in chat_sessions' \ chat_sessions :
                            s.title = SessionTitle(calls[c].query)]_vars

C24_SignedOutSubmitWritesNothing ==
    [][/\ (/\ Len(calls') = Len(calls) + 1
           /\ user = NoUser
           /\ currentSessionId = NoSession) =>
             /\ calls'[Len(calls')].pc = "gateway"
             /\ Len(messages') = Len(messages) + 1
             /\ messages'[Len(messages')].role = "user"
             /\ UNCHANGED <<chat_sessions, chat_messages>>
       /\ \A c \in 1..Len(calls) :
             (/\ calls[c].pc # "done"
              /\ calls[c].user = NoUser
              /\ calls[c].sessionId = NoSession) =>
                 /\ calls[c].pc = "gateway"
                 /\ calls'[c] # calls[c] =>
                       /\ calls'[c].pc = "done"
                       /\ ~calls'[c].created
                       /\ ~calls'[c].userSaved
                       /\ calls'[c].assistantSaved = "none"
                       /\ Len(messages') = Len(messages) + 1
                       /\ messages'[Len(messages')].role = "assistant"
                       /\ UNCHANGED <<chat_sessions, chat_messages>>]_vars

C24_Witness ==
    /\ events = 1
    /\ user = NoUser
    /\ Len(calls) = 1
    /\ calls[1].pc = "done"
    /\ calls[1].gateway = "success"
    /\ Len(relay) = 1
    /\ chat_sessions = {}
    /\ chat_messages = {}
    /\ Len(messages) = 3

\* C25: in a conversation started from New Chat by a signed-in user, when
\* every submit made so far has succeeded at every await and the transcript is
\* the one those submits built (no load has returned before), the step in
\* which a load of the active session returns its rows leaves a transcript of
\* the same length whose entries have, one by one, the role, the content and
\* the file names of the entries it replaces.
C25_LoadReproducesTranscript ==
    [][\A l \in 1..Len(loads) :
          (/\ loads[l].status = "pending"
           /\ loads'[l].status = "loaded"
           /\ loads[l].id = currentSessionId
           /\ \A k \in 1..Len(loads) : loads[k].status = "pending"
           /\ Len(calls) > 0
           /\ \A c \in 1..Len(calls) : Succeeded(calls[c])) =>
              /\ Len(messages') = Len(messages)
              /\ \A i \in 1..Len(messages) :
                    /\ messages'[i].role = messages[i].role
                    /\ messages'[i].content = messages[i].content
                    /\ messages'[i].files = messages[i].files]_vars

C25_Witness ==
    /\ Len(loads) = 1
    /\ loads[1].status = "loaded"
    /\ loads[1].id = currentSessionId
    /\ Len(calls) = 2
    /\ \A c \in 1..Len(calls) : Succeeded(calls[c])
    /\ Len(messages) = 4
    /\ \A i \in 1..Len(messages) : messages[i].id # ClientId
    /\ \E i \in 1..Len(messages) : messages[i].files # <<>>

\* C26: for every submit, the text sent to the gateway as the new user message
\* is the content of the user message that the submit appended to the
\* transcript and persists, also when the text is empty and only files are
\* attached.
C26_GatewayTextIsUserMessageContent ==
    \A c \in 1..Len(calls) :
        calls[c].request.message = calls[c].userMessage.content

\* C27: provided every call to the store and to the gateway returns or fails,
\* a submit that has set isLoading is followed by a state in which isLoading is
\* false again, so that submission is enabled again.
C27_SubmitEventuallyFinishes == isLoading ~> ~isLoading

C27_Witness ==
    /\ ~isLoading
    /\ \E c \in 1..Len(calls) :
          /\ calls[c].pc = "done"
          /\ calls[c].gateway = "success"
          /\ calls[c].assistantSaved = "threw"

\* C28: the session an invocation of handleSubmit writes to is the one that
\* was active when it started or the one it created, it does not change
\* afterwards, and every message row stored by a step of the invocation has
\* that session as its session_id, whatever currentSessionId is by then.
C28_OneSessionPerSubmit ==
    [][/\ Len(calls') = Len(calls) + 1 =>
              calls'[Len(calls')].sessionId = currentSessionId
       /\ \A c \in 1..Len(calls) :
             /\ (calls[c].pc # "done" /\ calls'[c].pc # "done") =>
                    \/ calls'[c].sessionId = calls[c].sessionId
                    \/ /\ calls[c].pc = "create"
                       /\ calls[c].sessionId = NoSession
                       /\ calls'[c].created
                       /\ \E s \in chat_sessions' \ chat_sessions :
                             s.id = calls'[c].sessionId
             /\ (calls[c].pc \in {"saveUser", "saveAssistant"}
                    /\ calls'[c] # calls[c]) =>
                    \A m \in chat_messages' \ chat_messages :
                        m.session_id = calls[c].sessionId]_vars

\* A conversation selected while the submit was waiting for the gateway: the
\* transcript shows its rows followed by the answer, and the answer is stored
\* with the question under the session of the submit.
C28_Witness ==
    \E c \in 1..Len(calls) :
        /\ calls[c].pc = "done"
        /\ calls[c].userSaved
        /\ calls[c].assistantSaved = "saved"
        /\ currentSessionId # NoSession
        /\ Len(messages) = 3
        /\ messages[1].id # ClientId
        /\ messages[3].id = ClientId
        /\ \E u \in chat_messages, a \in chat_messages :
              /\ u.role = "user"
              /\ a.role = "assistant"
              /\ a.id = nextUuid - 1
              /\ u.id >= 3 * MaxEarlier + 1
              /\ u.session_id = a.session_id
              /\ u.session_id # currentSessionId

\* C29: the step in which the read of loadSession returns an error or throws
\* leaves the transcript, showResults and the active session as they were.
C29_FailedLoadChangesNothing ==
    [][\A l \in 1..Len(loads) :
          (loads[l].status = "pending" /\ loads'[l].status = "failed") =>
              /\ messages' = messages
              /\ showResults' = showResults
              /\ currentSessionId' = currentSessionId]_vars

C29_Witness ==
    /\ \E l \in 1..Len(loads) : loads[l].status = "failed"
    /\ Len(messages) > 1
    /\ currentSessionId # NoSession

\* C30: at the step in which a submit that created a session returns, with the
\* identity that created it still signed in, the session still stored and no
\* fetch of the sidebar outstanding, the sidebar's list of sessions contains
\* that session.
C30_CreatedSessionListed ==
    [][\A c \in 1..Len(calls) :
          (/\ calls[c].pc # "done"
           /\ calls'[c].pc = "done"
           /\ calls[c].created
           /\ calls[c].user = user'
           /\ fetches' = <<>>
           /\ \E s \in chat_sessions' : s.id = calls[c].sessionId) =>
              \E i \in 1..Len(sessions') :
                  sessions'[i].id = calls[c].sessionId]_vars

====
